---- MODULE Spec2Model ----
(***************************************************************************)
(* ScrollableTable (src/js/scrollable-table.js): a scrollable table that   *)
(* keeps a bounded pool of row <div> nodes and moves them between data     *)
(* rows as the viewport scrolls.                                           *)
(*                                                                         *)
(* Rows are numbered 0..dataLen-1 as in the source.  data[r].__top is      *)
(* top[r], data[r].__node is node[r] (Null when the row has no node).      *)
(* rowsWithNodes is a TLA+ sequence, so the JavaScript slot f is element   *)
(* f+1.  DOM nodes built by buildRow are numbered 1, 2, ... in the order   *)
(* they are built; nodeTop[n] is n.style.top.                              *)
(***************************************************************************)
EXTENDS Integers, Sequences, FiniteSets, TLC

\* ---- bounds of the model ----
MaxNodes == 3
MaxRows == 4
MaxClientHeight == 1
MaxHeight == 1

\* values heightFn may return for a row
HeightValues == 0 .. MaxHeight

Null == 0
Undefined == -1

Required == {"el", "data", "buildRow", "updateRow"}

VARIABLES
  pc,             \* "new" | "ready" | "failed", and inside a running reset():
                  \* "reset_remove" (line 58, body) | "reset_test" (line 58, test)
  given,          \* the required options present in opts
  availableNodes, \* this.availableNodes
  dataLen,        \* this.data.length
  height,         \* heightFn(data[r]) for each row r
  top,            \* data[r].__top
  totalHeight,    \* this.totalHeight
  node,           \* data[r].__node
  rowsWithNodes,  \* this.rowsWithNodes
  nodeTop,        \* style.top of every node built so far
  built,          \* number of buildRow calls so far
  children,       \* child nodes of this.el, in document order
  bottomTop,      \* this.bottomEl.style.top
  elAttached,     \* this.el is still a child of its own parent
  listeners,      \* number of 'scroll' listeners added to this.el
  isUpdating,     \* this.isUpdating
  lastMidNdx,     \* this.lastMidNdx
  last            \* observation of the most recent operation (callback log)

vars == <<pc, given, availableNodes, dataLen, height, top, totalHeight, node,
          rowsWithNodes, nodeTop, built, children, bottomTop, elAttached,
          listeners, isUpdating, lastMidNdx, last>>

config == <<given, availableNodes, dataLen, height>>

Rows == 0 .. (dataLen - 1)

Min(a, b) == IF a < b THEN a ELSE b
Max(a, b) == IF a > b THEN a ELSE b

\* Math.ceil(availableNodes / 2)
\* variant: Math.floor instead of Math.ceil
CeilHalf_floor(n) == n \div 2

CeilHalf(n) == (n + 1) \div 2

\* rows that hold a node
Holders == {r \in Rows : node[r] # Null}

\* ---- calculateHeights ----
RECURSIVE SumHeights(_, _)
SumHeights(h, n) == IF n = 0 THEN 0 ELSE SumHeights(h, n - 1) + h[n - 1]

\* variant: __top is assigned after the row's own height has been added
calculateHeightsTop_afterAdd(h, n) == [r \in 0 .. (n - 1) |-> SumHeights(h, r + 1)]

\* data[ndx].__top after the loop of calculateHeights
calculateHeightsTop(h, n) == [r \in 0 .. (n - 1) |-> SumHeights(h, r)]

\* the value calculateHeights returns and leaves in this.totalHeight
calculateHeights(h, n) == SumHeights(h, n)

\* ---- the observation record ----
NoObs ==
  [op |-> "none", outcome |-> "none", mid |-> Undefined, prevMid |-> Undefined,
   fillStart |-> 0, fillEnd |-> 0, calls |-> <<>>, posSets |-> <<>>,
   builds |-> <<>>, preNode |-> <<>>, preRwn |-> <<>>, preLastMid |-> Undefined,
   preChildren |-> <<>>, preNodeTop |-> <<>>, nested |-> "none",
   freeStart |-> 0, freeEnd |-> 0, freePrev |-> 0, mid2 |-> 0]

\* ---- reset ----
\* variant: builds one node per data row, ignoring availableNodes
nodesToBuild_dataLen(avail, n) == n

\* Math.min(this.availableNodes, this.data.length)
nodesToBuild(avail, n) == Min(avail, n)

\* One buildRow call per row ndx < nodesToBuild; the nodes get the next ids.
builtNode(ndx) == built + ndx + 1

\* variant: every new node is left at the top of the container
initialTop_zero(tops, ndx) == 0

\* line 68: newRow.style.top = this.data[ndx].__top
initialTop(tops, ndx) == tops[ndx]

\* Lines 60-84 of reset: clear the references, build and append the nodes,
\* append the bottom element, add the scroll listener.  tops is data[..].__top
\* and total is this.totalHeight, both just recomputed by setHeight.
rebuild(op, tops, total) ==
  LET ntb == nodesToBuild(availableNodes, dataLen)
      newRows == [i \in 1 .. ntb |-> <<"row", builtNode(i - 1)>>]
  IN /\ node' = [r \in Rows |-> IF r < ntb THEN builtNode(r) ELSE Null]
     /\ rowsWithNodes' = [i \in 1 .. ntb |-> i - 1]
     /\ nodeTop' = [n \in 1 .. (built + ntb) |->
                      IF n <= built THEN nodeTop[n]
                      ELSE initialTop(tops, n - built - 1)]
     /\ built' = built + ntb
     /\ children' = (children \o newRows) \o << <<"bottom", listeners + 1>> >>
     /\ bottomTop' = total
     /\ listeners' = listeners + 1
     /\ pc' = "ready"
     /\ last' = [NoObs EXCEPT !.op = op, !.outcome = "done",
                              !.builds = [i \in 1 .. ntb |-> i - 1],
                              !.preNode = node, !.preRwn = rowsWithNodes,
                              !.preLastMid = lastMidNdx,
                              !.preChildren = children]

\* reset(): setHeight, then the loop of line 58.  this.el.remove(x) is
\* ChildNode.remove(): it takes no argument and removes this.el from its own
\* parent, so a non-empty this.el keeps its first child and the loop goes on.
\* With this.el empty the loop body does not run and reset() is one step;
\* otherwise the step ends at the first execution of the body.
reset(op) ==
  /\ top' = calculateHeightsTop(height, dataLen)
  /\ totalHeight' = calculateHeights(height, dataLen)
  /\ IF children = <<>>
       THEN rebuild(op, top', totalHeight')
       ELSE /\ pc' = "reset_remove"
            /\ last' = [NoObs EXCEPT !.op = op, !.outcome = "running",
                                     !.preNode = node, !.preRwn = rowsWithNodes,
                                     !.preLastMid = lastMidNdx,
                                     !.preChildren = children]
            /\ UNCHANGED <<node, rowsWithNodes, nodeTop, built, children,
                           bottomTop, listeners>>

\* ---- the constructor ----
\* variant: the check of updateRow (line 40) is missing
missingOption_skipsUpdateRow(g) == ~({"el", "data", "buildRow"} \subseteq g)

\* lines 37-40: one of the four checks throws
missingOption(g) == ~(Required \subseteq g)

ScrollableTable ==
  /\ pc = "new"
  /\ IF ~missingOption(given)
       THEN /\ reset("construct")
            /\ UNCHANGED <<config, elAttached, isUpdating, lastMidNdx>>
       ELSE /\ pc' = "failed"
            /\ last' = [NoObs EXCEPT !.op = "construct", !.outcome = "threw"]
            /\ UNCHANGED <<config, top, totalHeight, node, rowsWithNodes,
                           nodeTop, built, children, bottomTop, elAttached,
                           listeners, isUpdating, lastMidNdx>>

\* reset() called on a constructed table
Reset ==
  /\ pc = "ready"
  /\ reset("reset")
  /\ UNCHANGED <<config, elAttached, isUpdating, lastMidNdx>>

\* the body of the loop of line 58 in a running reset(): this.el.remove(...)
ResetRemove ==
  /\ pc = "reset_remove"
  /\ elAttached' = FALSE
  /\ pc' = "reset_test"
  /\ UNCHANGED <<config, top, totalHeight, node, rowsWithNodes, nodeTop, built,
                 children, bottomTop, listeners, isUpdating, lastMidNdx, last>>

\* the test of the loop of line 58 in a running reset(): back into the body
\* while this.el has a first child, on to line 61 once it has none
ResetLoop ==
  /\ pc = "reset_test"
  /\ IF children # <<>>
       THEN /\ pc' = "reset_remove"
            /\ UNCHANGED <<config, top, totalHeight, node, rowsWithNodes,
                           nodeTop, built, children, bottomTop, elAttached,
                           listeners, isUpdating, lastMidNdx, last>>
       ELSE /\ rebuild(last.op, top, totalHeight)
            /\ UNCHANGED <<config, top, totalHeight, elAttached, isUpdating,
                           lastMidNdx>>

\* ---- updateVisibleRows ----
\* _.sortedIndex(this.data, {__top: v}, '__top'): binary search for the lowest
\* index at which v can be inserted.  v is given doubled (v2 = 2 * v) because
\* the screen midpoint may be a half.
RECURSIVE binaryIndexBy(_, _, _, _)
binaryIndexBy(tops, v2, low, high) ==
  IF low < high
    THEN LET mid == (low + high) \div 2
         IN IF 2 * tops[mid] < v2
              THEN binaryIndexBy(tops, v2, mid + 1, high)
              ELSE binaryIndexBy(tops, v2, low, mid)
    ELSE high

sortedIndex(tops, n, v2) == binaryIndexBy(tops, v2, 0, n)

\* midNdx for a viewport: screenMidpoint = (screenTop + screenBottom) / 2
midNdxOf(scrollTop, clientHeight) ==
  sortedIndex(top, dataLen, scrollTop + (scrollTop + clientHeight))

fillStartOf(midNdx) == Max(0, midNdx - CeilHalf(availableNodes))
fillEndOf(midNdx) == Min(dataLen, midNdx + CeilHalf(availableNodes))

\* variant: the test never recognises the previous midNdx
sameMidNdx_never(lastMid, midNdx) == FALSE

\* the test of line 102
sameMidNdx(lastMid, midNdx) == lastMid = midNdx

\* the condition of the while loop of lines 107-108 on the row r found in a
\* slot of rowsWithNodes
keepsNode(r, fillStart, fillEnd) == r > fillStart /\ r < fillEnd

\* the while loop of lines 107-108: the slot it stops at.  A slot past the end
\* of rowsWithNodes reads undefined, both comparisons are false, and it stops.
RECURSIVE freeSearch(_, _, _, _)
freeSearch(rwn, f, fillStart, fillEnd) ==
  IF f < Len(rwn) /\ keepsNode(rwn[f + 1], fillStart, fillEnd)
    THEN freeSearch(rwn, f + 1, fillStart, fillEnd)
    ELSE f

\* variant: the scan goes on from the slot the previous pass stopped at
freeSearchStart_persistent(prev) == prev

\* line 99: freeSearchNdx = 0, whatever slot prev the previous pass stopped at
freeSearchStart(prev) == 0

\* variant: the test of line 92 never sees an update in flight
inFlight_never(flag) == FALSE

\* the test of line 92
inFlight(flag) == flag

RECURSIVE fillLoop(_, _, _, _)

\* The handler entered from inside updateRow (a scroll event dispatched by the
\* callback) for a viewport whose midNdx is s.nestMid, on the state s the
\* running pass has reached: lines 92-117 again, with their own freeSearchNdx.
\* An exception thrown in it propagates through updateRow into the running
\* pass.
reentrant(s) ==
  IF inFlight(s.isUpdating)
    THEN [s EXCEPT !.nested = "dropped"]
    ELSE IF s.lastMid = s.nestMid
      THEN [s EXCEPT !.nested = "nochange", !.isUpdating = FALSE]
      ELSE LET t == fillLoop([s EXCEPT !.isUpdating = TRUE,
                                       !.lastMid = s.nestMid,
                                       !.free = freeSearchStart(s.free), !.nestAt = 0],
                             fillStartOf(s.nestMid), fillStartOf(s.nestMid),
                             fillEndOf(s.nestMid))
           IN [t EXCEPT !.nested = "ran", !.free = s.free,
                        !.isUpdating = t.threw]

\* line 110: the call of updateRow.  The callback re-enters the handler
\* during the call numbered s.nestAt of the pass (0: it never does).
updateRow(s) ==
  IF s.nestAt # 0 /\ s.nestAt = Len(s.calls) THEN reentrant(s) ELSE s

\* variant: line 112 missing, the old row keeps its reference to the node
takeNode_keepsOldRef(s, rowNdx, f) ==
  LET s1 == [s EXCEPT !.node = [@ EXCEPT ![rowNdx] = s.node[s.rwn[f + 1]]],
                      !.calls = Append(@, <<rowNdx, s.node[s.rwn[f + 1]]>>)]
      s2 == updateRow(s1)
      n == s2.node[rowNdx]
  IN IF s2.threw
       THEN s2
       ELSE IF n = Null
         THEN [s2 EXCEPT !.free = f, !.threw = TRUE]
         ELSE [s2 EXCEPT !.nodeTop = [@ EXCEPT ![n] = top[rowNdx]],
                         !.posSets = Append(@, <<n, top[rowNdx]>>),
                         !.rwn = [@ EXCEPT ![f + 1] = rowNdx],
                         !.free = f + 1]

\* variant: line 113 missing, the slot keeps the old row
takeNode_keepsSlot(s, rowNdx, f) ==
  LET s1 == [s EXCEPT !.node = [@ EXCEPT ![rowNdx] = s.node[s.rwn[f + 1]]],
                      !.calls = Append(@, <<rowNdx, s.node[s.rwn[f + 1]]>>)]
      s2 == updateRow(s1)
      n == s2.node[rowNdx]
  IN IF s2.threw
       THEN s2
       ELSE IF n = Null
         THEN [s2 EXCEPT !.free = f, !.threw = TRUE]
         ELSE [s2 EXCEPT !.nodeTop = [@ EXCEPT ![n] = top[rowNdx]],
                         !.posSets = Append(@, <<n, top[rowNdx]>>),
                         !.node = [@ EXCEPT ![s2.rwn[f + 1]] = Null],
                         !.free = f + 1]

\* variant: line 111 missing, the node keeps the position of its old row
takeNode_keepsPosition(s, rowNdx, f) ==
  LET s1 == [s EXCEPT !.node = [@ EXCEPT ![rowNdx] = s.node[s.rwn[f + 1]]],
                      !.calls = Append(@, <<rowNdx, s.node[s.rwn[f + 1]]>>)]
      s2 == updateRow(s1)
      n == s2.node[rowNdx]
  IN IF s2.threw
       THEN s2
       ELSE IF n = Null
         THEN [s2 EXCEPT !.free = f, !.threw = TRUE]
         ELSE [s2 EXCEPT !.node = [@ EXCEPT ![s2.rwn[f + 1]] = Null],
                         !.rwn = [@ EXCEPT ![f + 1] = rowNdx],
                         !.free = f + 1]

\* variant: line 109 missing, the node is detached and given to no row
takeNode_dropsNode(s, rowNdx, f) ==
  LET s1 == [s EXCEPT !.calls = Append(@, <<rowNdx, s.node[s.rwn[f + 1]]>>)]
      s2 == updateRow(s1)
  IN IF s2.threw
       THEN s2
       ELSE [s2 EXCEPT !.node = [@ EXCEPT ![s2.rwn[f + 1]] = Null],
                       !.rwn = [@ EXCEPT ![f + 1] = rowNdx],
                       !.free = f + 1]

\* lines 109-114 for a row without a node, the free slot f being in range.
\* Line 109 gives the row the node of the row in slot f; line 110 calls
\* updateRow; line 111 positions the node the row holds then (null.style
\* throws); line 112 clears the reference of the row in slot f; line 113
\* records the row in the slot; line 114 moves on.
takeNode(s, rowNdx, f) ==
  LET s1 == [s EXCEPT !.node = [@ EXCEPT ![rowNdx] = s.node[s.rwn[f + 1]]],
                      !.calls = Append(@, <<rowNdx, s.node[s.rwn[f + 1]]>>)]
      s2 == updateRow(s1)
      n == s2.node[rowNdx]
  IN IF s2.threw
       THEN s2
       ELSE IF n = Null
         THEN [s2 EXCEPT !.free = f, !.threw = TRUE]
         ELSE [s2 EXCEPT !.nodeTop = [@ EXCEPT ![n] = top[rowNdx]],
                         !.posSets = Append(@, <<n, top[rowNdx]>>),
                         !.node = [@ EXCEPT ![s2.rwn[f + 1]] = Null],
                         !.rwn = [@ EXCEPT ![f + 1] = rowNdx],
                         !.free = f + 1]

\* the body of the for loop for one row without a node.  With the slot past
\* the end, this.data[undefined].__node throws a TypeError at line 109.
fillRow(s, rowNdx, fillStart, fillEnd) ==
  LET f == freeSearch(s.rwn, s.free, fillStart, fillEnd)
  IN IF f >= Len(s.rwn)
       THEN [s EXCEPT !.free = f, !.threw = TRUE]
       ELSE takeNode(s, rowNdx, f)

\* the for loop of lines 105-116 from rowNdx on
fillLoop(s, rowNdx, fillStart, fillEnd) ==
  IF rowNdx >= fillEnd \/ s.threw
    THEN s
    ELSE fillLoop(IF s.node[rowNdx] = Null
                    THEN fillRow(s, rowNdx, fillStart, fillEnd)
                    ELSE s,
                  rowNdx + 1, fillStart, fillEnd)

\* lines 91-117 once midNdx is known; s is the state the for loop ends in
\* (after its last row, or at the statement that threw)
recycle(midNdx, s) ==
  LET obs == [NoObs EXCEPT !.op = "scroll", !.mid = midNdx,
                           !.prevMid = IF last.op = "scroll" THEN last.mid
                                       ELSE Undefined,
                           !.fillStart = fillStartOf(midNdx),
                           !.fillEnd = fillEndOf(midNdx),
                           !.preNode = node, !.preRwn = rowsWithNodes,
                           !.preLastMid = lastMidNdx,
                           !.preChildren = children,
                           !.preNodeTop = nodeTop,
                           !.freeEnd = last.freeEnd,
                           !.freePrev = last.freeEnd]
  IN IF inFlight(isUpdating)
       THEN /\ last' = [obs EXCEPT !.outcome = "dropped"]
            /\ UNCHANGED <<node, rowsWithNodes, nodeTop, isUpdating, lastMidNdx>>
       ELSE IF sameMidNdx(lastMidNdx, midNdx)
         THEN /\ last' = [obs EXCEPT !.outcome = "nochange"]
              /\ UNCHANGED <<node, rowsWithNodes, nodeTop, isUpdating, lastMidNdx>>
         ELSE /\ lastMidNdx' = s.lastMid
              /\ node' = s.node
              /\ rowsWithNodes' = s.rwn
              /\ nodeTop' = s.nodeTop
              /\ isUpdating' = (s.threw /\ s.isUpdating)
              /\ last' = [obs EXCEPT !.outcome = IF s.threw THEN "threw" ELSE "done",
                                     !.calls = s.calls, !.posSets = s.posSets,
                                     !.nested = s.nested,
                                     !.freeStart = s.freeStart,
                                     !.freeEnd = s.free]

\* the state of a pass at line 105: isUpdating set (line 93), lastMidNdx
\* stored (line 103), freeSearchNdx initialised (line 99).  The updateRow
\* callback re-enters the handler during call nestAt, for midNdx nestMid.
passStart(midNdx, nestAt, nestMid) ==
  [node |-> node, rwn |-> rowsWithNodes, nodeTop |-> nodeTop,
   free |-> freeSearchStart(last.freeEnd),
   freeStart |-> freeSearchStart(last.freeEnd),
   calls |-> <<>>, posSets |-> <<>>, threw |-> FALSE,
   isUpdating |-> TRUE, lastMid |-> midNdx,
   nestAt |-> nestAt, nestMid |-> nestMid, nested |-> "none"]

\* the handler for a viewport whose midNdx is midNdx
handle(midNdx, nestAt, nestMid) ==
  \E s \in {fillLoop(passStart(midNdx, nestAt, nestMid), fillStartOf(midNdx),
                     fillStartOf(midNdx), fillEndOf(midNdx))} :
     recycle(midNdx, s)

\* the handler of a scroll event with this.el.scrollTop and this.el.clientHeight
updateVisibleRows(scrollTop, clientHeight) ==
  \E midNdx \in {midNdxOf(scrollTop, clientHeight)} : handle(midNdx, 0, 0)

\* the midNdx values the viewports of the model resolve to
MidNdxs ==
  {midNdxOf(scrollTop, clientHeight) :
     scrollTop \in 0 .. totalHeight, clientHeight \in 0 .. MaxClientHeight}

\* the handler reads the viewport only through midNdx (line 98): one viewport
\* <<scrollTop, clientHeight>> for each midNdx value that viewports resolve to
Viewports ==
  {CHOOSE vp \in (0 .. totalHeight) \X (0 .. MaxClientHeight) :
      midNdxOf(vp[1], vp[2]) = m : m \in MidNdxs}

\* a scroll event delivered to the listener
Scroll ==
  /\ pc = "ready"
  /\ \E vp \in Viewports : updateVisibleRows(vp[1], vp[2])
  /\ UNCHANGED <<pc, config, top, totalHeight, built, children, bottomTop,
                 elAttached, listeners>>

\* lines 95-101 alone: the window located for a viewport, with the doubled
\* screenMidpoint it was located for
Locate ==
  /\ pc = "ready"
  /\ \E scrollTop \in 0 .. totalHeight, clientHeight \in 0 .. MaxClientHeight :
        \E midNdx \in {midNdxOf(scrollTop, clientHeight)} :
           last' = [NoObs EXCEPT !.op = "locate",
                                 !.mid2 = scrollTop + (scrollTop + clientHeight),
                                 !.mid = midNdx,
                                 !.fillStart = fillStartOf(midNdx),
                                 !.fillEnd = fillEndOf(midNdx)]
  /\ UNCHANGED <<pc, config, top, totalHeight, node, rowsWithNodes, nodeTop,
                 built, children, bottomTop, elAttached, listeners,
                 isUpdating, lastMidNdx>>

\* a scroll event whose updateRow callback, during one of its calls, scrolls
\* the container to its top and dispatches a scroll event
ScrollReentrant ==
  /\ pc = "ready"
  /\ \E midNdx \in MidNdxs, nestAt \in 1 .. availableNodes :
        handle(midNdx, nestAt, midNdxOf(0, 0))
  /\ UNCHANGED <<pc, config, top, totalHeight, built, children, bottomTop,
                 elAttached, listeners>>

\* ---- the specification ----
Init ==
  /\ pc = "new"
  /\ given \in SUBSET Required
  /\ availableNodes \in 0 .. MaxNodes
  /\ dataLen \in 0 .. MaxRows
  /\ height \in [Rows -> HeightValues]
  /\ "data" \notin given => dataLen = 0
  /\ top = [r \in Rows |-> 0]
  /\ totalHeight = 0
  /\ node = [r \in Rows |-> Null]
  /\ rowsWithNodes = <<>>
  /\ nodeTop = <<>>
  /\ built = 0
  /\ children = <<>>
  /\ bottomTop = 0
  /\ elAttached = TRUE
  /\ listeners = 0
  /\ isUpdating = FALSE
  /\ lastMidNdx = Undefined
  /\ last = NoObs

Next == ScrollableTable \/ Reset \/ ResetRemove \/ ResetLoop \/ Scroll

Spec == Init /\ [][Next]_vars

\* the window computation applied to the viewports of every built table
NextLocate == ScrollableTable \/ Locate

LocateSpec == Init /\ [][NextLocate]_vars

\* scroll events whose updateRow callback re-enters the handler
NextReentrant == ScrollableTable \/ ScrollReentrant

ReentrantSpec == Init /\ [][NextReentrant]_vars

\* a running reset() keeps executing its loop
LiveSpec == Spec /\ WF_vars(ResetRemove) /\ WF_vars(ResetLoop)

\* ---- properties ----
\* the fill window of the most recent scroll notification
WindowRows == last.fillStart .. (last.fillEnd - 1)

\* the most recent operation was a scroll notification that ran the for loop
PassRan == last.op = "scroll" /\ last.outcome \in {"done", "threw"}

\* ... and the loop ran to its end
PassDone == last.op = "scroll" /\ last.outcome = "done"

\* rows that updateRow was called for in the most recent pass
CallsFor(r) == {i \in 1 .. Len(last.calls) : last.calls[i][1] = r}

\* nodes whose style.top was set in the most recent pass
Repositioned == {last.posSets[i][1] : i \in 1 .. Len(last.posSets)}

Abs(x) == IF x < 0 THEN -x ELSE x

\* C1: after a scroll notification that performed a recycling pass with
\* window [fillStart, fillEnd), the rows holding a node are
\* min(fillEnd - fillStart, availableNodes) many and all lie in the window.
C1_HoldersAreTheWindow ==
  PassDone =>
    /\ Cardinality(Holders) = Min(last.fillEnd - last.fillStart, availableNodes)
    /\ Holders \subseteq WindowRows

\* C2: in a recycling pass every row of the window that held a node before the
\* pass (fillStart included) holds the same node after it, gets no updateRow
\* call and no position update; a node is only taken from a row outside the
\* window.
C2_WindowRowsUntouched ==
  PassRan =>
    /\ \A r \in WindowRows :
          last.preNode[r] # Null =>
            /\ node[r] = last.preNode[r]
            /\ CallsFor(r) = {}
            /\ last.preNode[r] \notin Repositioned
    /\ \A r \in Rows :
          (last.preNode[r] # Null /\ node[r] # last.preNode[r]) => r \notin WindowRows

\* C3: in every state no node is referenced by two different rows.
C3_Injective ==
  \A r1, r2 \in Rows : (r1 # r2 /\ node[r1] # Null) => node[r1] # node[r2]

\* a pass has moved a node while another row kept its own
C3_Witness ==
  PassDone /\ Len(last.calls) >= 1 /\ Cardinality(Holders) >= 2

\* C4: in every state at most availableNodes rows hold a node.
C4_AtMostPoolSize == Cardinality(Holders) <= availableNodes

\* a pass has moved nodes in a table with more rows than nodes, the pool full
C4_Witness ==
  /\ PassDone /\ Len(last.calls) >= 2
  /\ dataLen > availableNodes
  /\ Cardinality(Holders) = availableNodes

\* C5: a pass whose window has more rows than there are pooled nodes ends
\* without an error, having served at most availableNodes rows of the window.
C5_OversizedWindowCompletes ==
  (PassRan /\ last.fillEnd - last.fillStart > Len(last.preRwn)) =>
    /\ last.outcome = "done"
    /\ ~isUpdating
    /\ Cardinality(Holders \cap WindowRows) <= availableNodes

\* C6: a scroll notification that resolves to the same midNdx as the scroll
\* notification right before it calls updateRow for no row, sets no position
\* and changes neither a row's node nor rowsWithNodes.
C6_SameMidNdxNoWork ==
  (last.op = "scroll" /\ last.prevMid = last.mid) =>
    /\ last.calls = <<>>
    /\ last.posSets = <<>>
    /\ node = last.preNode
    /\ rowsWithNodes = last.preRwn

\* the second of two such notifications was taken as "no change" while the
\* window still had a row without a node
C6_Witness ==
  /\ last.op = "scroll" /\ last.prevMid = last.mid
  /\ last.outcome = "nochange"
  /\ \E r \in WindowRows : node[r] = Null

\* C7: in a recycling pass each row of the window that had no node before the
\* pass gets exactly one updateRow call, with the node it holds after the
\* pass, and that node is positioned at the row's __top; no other row gets
\* an updateRow call.
C7_EnteringRowsPaintedOnce ==
  PassRan =>
    /\ \A r \in WindowRows :
          last.preNode[r] = Null =>
            /\ Cardinality(CallsFor(r)) = 1
            /\ node[r] # Null
            /\ \A i \in CallsFor(r) : last.calls[i][2] = node[r]
            /\ nodeTop[node[r]] = top[r]
    /\ \A i \in 1 .. Len(last.calls) :
          /\ last.calls[i][1] \in WindowRows
          /\ last.preNode[last.calls[i][1]] = Null

\* membership of row r in the window of midNdx m
InWindowOf(r, m) == r >= fillStartOf(m) /\ r < fillEndOf(m)

\* C8: a pass whose midNdx differs by one from the previously used midNdx
\* makes at most one updateRow call; a pass calls updateRow only for rows
\* whose membership in the window changed from the previous window to the
\* new one, and for at most availableNodes rows.
C8_MinimalChurn ==
  (PassRan /\ last.preLastMid # Undefined) =>
    /\ Abs(last.mid - last.preLastMid) = 1 => Len(last.calls) <= 1
    /\ \A i \in 1 .. Len(last.calls) :
          InWindowOf(last.calls[i][1], last.mid)
            # InWindowOf(last.calls[i][1], last.preLastMid)
    /\ Len(last.calls) <= availableNodes

\* the state a single initialisation leaves
FreshlyBuilt ==
  LET m == Min(availableNodes, dataLen)
  IN /\ pc = "ready"
     /\ Len(children) = m + 1
     /\ \A i \in 1 .. m : children[i][1] = "row"
     /\ children[m + 1][1] = "bottom"
     /\ \A i \in 1 .. m : \A j \in 1 .. Len(last.preChildren) :
           children[i] # last.preChildren[j]
     /\ \A r \in Rows : (node[r] # Null) <=> (r < m)
     /\ rowsWithNodes = [i \in 1 .. m |-> i - 1]

\* C9: reset() called on a constructed table terminates and leaves the
\* container with min(availableNodes, data.length) new row nodes and one
\* bottom element, the nodes on rows 0 .. min - 1.
C9_ResetTerminates ==
  (last.op = "reset") ~> (last.op = "reset" /\ last.outcome = "done" /\ FreshlyBuilt)

\* C10: construction calls buildRow min(availableNodes, data.length) times,
\* for rows 0 .. min - 1 in order, gives row r the node built for it, placed
\* at the row's __top, leaves the other rows without a node and places the
\* bottom element at totalHeight.
C10_InitialPool ==
  (pc = "ready" /\ last.op = "construct") =>
    LET m == Min(availableNodes, dataLen)
    IN /\ built = m
       /\ last.builds = [i \in 1 .. m |-> i - 1]
       /\ \A r \in Rows :
             IF r < m
               THEN node[r] = r + 1 /\ nodeTop[node[r]] = top[r]
               ELSE node[r] = Null
       /\ rowsWithNodes = [i \in 1 .. m |-> i - 1]
       /\ Len(children) = m + 1
       /\ bottomTop = totalHeight

\* constructed with more nodes allowed than there are rows
C10_Witness ==
  /\ pc = "ready" /\ last.op = "construct"
  /\ dataLen = 2 /\ availableNodes = 3
  /\ built = 2 /\ top[1] > 0

\* C11: a constructor call with a required option missing throws and leaves
\* nothing behind: no buildRow call, no __top or __node set on a row, no
\* child added to the container, no scroll listener.
C11_MissingOptionThrows ==
  (pc # "new" /\ given # Required) =>
    /\ pc = "failed"
    /\ last.op = "construct" /\ last.outcome = "threw"
    /\ built = 0 /\ last.builds = <<>>
    /\ \A r \in Rows : node[r] = Null /\ top[r] = 0
    /\ totalHeight = 0
    /\ children = <<>>
    /\ rowsWithNodes = <<>>
    /\ listeners = 0

\* a constructor call with data of several rows but no updateRow has thrown
C11_Witness ==
  /\ pc = "failed"
  /\ given = Required \ {"updateRow"}
  /\ dataLen >= 2 /\ availableNodes >= 1
  /\ \E r \in Rows : height[r] > 0

\* C12: after calculateHeights the first row's __top is 0, each next row's
\* __top is the previous row's __top plus the previous row's height, so
\* __top never decreases, and totalHeight is the sum of all heights (0
\* without rows).
C12_Offsets ==
  (pc \notin {"new", "failed"}) =>
    /\ dataLen > 0 => top[0] = 0
    /\ \A i \in Rows : (i + 1) \in Rows =>
          /\ top[i + 1] = top[i] + height[i]
          /\ top[i + 1] >= top[i]
    /\ totalHeight = IF dataLen = 0 THEN 0
                     ELSE top[dataLen - 1] + height[dataLen - 1]

\* heights were computed for rows of different heights, a zero one included
C12_Witness ==
  /\ pc = "ready" /\ dataLen >= 3
  /\ height[0] = 1 /\ height[1] = 0 /\ height[2] = 1
  /\ top[2] = 1 /\ totalHeight >= 2

\* C13: for every viewport, midNdx is the lower-bound insertion point of the
\* screen midpoint in the ascending offsets (every earlier row's offset is
\* below the midpoint, the row at midNdx, if any, is at or above it), and
\* fillStart = max(0, midNdx - ceil(availableNodes / 2)),
\* fillEnd = min(rowCount, midNdx + ceil(availableNodes / 2)),
\* so 0 <= fillStart <= fillEnd <= rowCount
C13_Window ==
  last.op = "locate" =>
    LET m == last.mid
        c == CHOOSE k \in 0 .. availableNodes :
               2 * k >= availableNodes /\ 2 * (k - 1) < availableNodes
    IN /\ m \in 0 .. dataLen
       /\ \A i \in Rows : i < m => 2 * top[i] < last.mid2
       /\ m < dataLen => 2 * top[m] >= last.mid2
       /\ last.fillStart = (IF m - c > 0 THEN m - c ELSE 0)
       /\ last.fillEnd = (IF m + c < dataLen THEN m + c ELSE dataLen)
       /\ 0 <= last.fillStart
       /\ last.fillStart <= last.fillEnd
       /\ last.fillEnd <= dataLen

\* a located window strictly inside the rows, for an odd pool size, whose
\* midpoint falls exactly on a row's offset
C13_Witness ==
  /\ last.op = "locate"
  /\ availableNodes % 2 = 1
  /\ last.fillStart > 0
  /\ last.fillEnd < dataLen
  /\ 2 * top[last.mid] = last.mid2

\* C14: after the handling of any scroll event has ended the in-flight flag
\* isUpdating is cleared, so that later events are not dropped
C14_FlagCleared == last.op = "scroll" => ~isUpdating

\* C15: a scroll event delivered from inside an updateRow call of a pass in
\* flight is dropped, and the pass ends with the row assignments, node
\* positions, rowsWithNodes, lastMidNdx, flag and updateRow calls of the same
\* pass without the nested event
C15_NestedEventDropped ==
  (PassRan /\ last.nested # "none") =>
    LET plain == fillLoop([node |-> last.preNode, rwn |-> last.preRwn,
                           nodeTop |-> last.preNodeTop, free |-> 0,
                           freeStart |-> 0, calls |-> <<>>, posSets |-> <<>>,
                           threw |-> FALSE, isUpdating |-> TRUE,
                           lastMid |-> last.mid, nestAt |-> 0, nestMid |-> 0,
                           nested |-> "none"],
                          last.fillStart, last.fillStart, last.fillEnd)
    IN /\ last.nested = "dropped"
       /\ node = plain.node
       /\ rowsWithNodes = plain.rwn
       /\ nodeTop = plain.nodeTop
       /\ lastMidNdx = last.mid
       /\ isUpdating = plain.threw
       /\ last.calls = plain.calls
       /\ last.posSets = plain.posSets

\* a pass of two or more updateRow calls that ran to its end with a scroll
\* event delivered during one of the calls
C15_Witness ==
  /\ PassDone
  /\ last.nested = "dropped"
  /\ Len(last.calls) >= 2

\* C16 as stated: the scan cursor persists between passes, so every pass
\* begins scanning rowsWithNodes at the slot where the previous pass left
\* the cursor (slot 0 after construction or reset)
C16_PersistentCursor == PassRan => last.freeStart = last.freePrev

\* C16 amended: the scan cursor is local to one pass; every pass begins
\* scanning rowsWithNodes at slot 0, wherever the previous pass left the
\* cursor, and within the pass the cursor only moves forward, one slot past
\* each node taken
C16_CursorPerPass ==
  PassRan => /\ last.freeStart = 0
             /\ last.freeEnd >= last.freeStart + Len(last.posSets)

\* a pass that took a node, after a pass that left the cursor past slot 0
C16_Witness ==
  /\ PassRan
  /\ last.freePrev > 0
  /\ Len(last.posSets) >= 1

\* C17: rowsWithNodes never contains a row twice, and a row is in it if and
\* only if the row holds a node
C17_IndexMatchesHolders ==
  /\ \A i, j \in 1 .. Len(rowsWithNodes) :
        i # j => rowsWithNodes[i] # rowsWithNodes[j]
  /\ \A r \in Rows :
        (\E i \in 1 .. Len(rowsWithNodes) : rowsWithNodes[i] = r) <=> node[r] # Null

\* a completed pass that rewrote two or more slots of rowsWithNodes
C17_Witness ==
  /\ PassDone
  /\ Cardinality({i \in 1 .. Len(rowsWithNodes) :
                   rowsWithNodes[i] # last.preRwn[i]}) >= 2

\* C18: a scroll event builds no node and removes none: the nodes built and
\* the children of the container are the same after it, buildRow is not
\* called, every built node is held by exactly one row, and the row
\* offsets, the total height and the bottom marker's position are unchanged
C18_ScrollKeepsPool ==
  [][last'.op = "scroll" =>
       /\ built' = built
       /\ children' = children
       /\ last'.builds = <<>>
       /\ \A n \in 1 .. built' : Cardinality({r \in Rows : node'[r] = n}) = 1
       /\ top' = top
       /\ totalHeight' = totalHeight
       /\ bottomTop' = bottomTop]_vars

\* a completed pass that moved a node from one row to another
C18_Witness ==
  /\ PassDone
  /\ built >= 2
  /\ \E r \in Rows : node[r] # Null /\ last.preNode[r] = Null

\* C19: every node held by a row is positioned at that row's offset
C19_NodeAtRowOffset == \A r \in Holders : nodeTop[node[r]] = top[r]

\* a completed pass that positioned a node at an offset other than 0
C19_Witness ==
  /\ PassDone
  /\ \E i \in 1 .. Len(last.posSets) :
        /\ last.posSets[i][2] > 0
        /\ \E r \in Holders : node[r] = last.posSets[i][1] /\ top[r] = last.posSets[i][2]

\* C20: a call of reset() ends with the scrolling state as it is after
\* construction: no previous midNdx remembered and no pass in flight, so the
\* next scroll event is handled whatever midNdx it resolves to
C20_ResetRestoresScrollState ==
  (last.op = "reset") ~>
     (pc = "ready" /\ last.op = "reset" /\ last.outcome = "done"
        /\ lastMidNdx = Undefined /\ ~isUpdating)
====
